---- MODULE Spec2Model ----
(***************************************************************************)
(* Model of src/main.cpp: the split 64-bit shift primitives of Hengband    *)
(* v2.2.1 (macros s64b_LSHIFT_2 / s64b_RSHIFT_2), their function versions  *)
(* (s64b_lshift / s64b_rshift) and the differential test driver (main,     *)
(* test, check_lshift, check_rshift, lshift_count_max).                    *)
(*                                                                         *)
(* Encoding of integers.  A w-bit machine word is the set of the positions *)
(* of its 1 bits, a subset of 0..w-1 (bit i has weight 2^i; bit w-1 is the *)
(* sign bit of a signed word).  So 0 is {}, 1 is {0}, 0x80000000 is {31},  *)
(* INT64_MAX is 0..62, INT64_MIN is {63} and -1 is 0..63.  A mathematical  *)
(* (unbounded) natural number is a finite set of naturals in the same way. *)
(* Every word keeps its width: a result is cut to 0..w-1 wherever the C++  *)
(* type cuts it.                                                           *)
(***************************************************************************)
EXTENDS Integers, FiniteSets, Sequences

VARIABLES pc,       \* position of the driver: main / test
          phase,    \* which call of test() is running (1, 2); 0 outside
          i,        \* loop counter of test()
          x,        \* the current s64b input
          n,        \* the current shift amount (loop variable of test)
          ret,      \* (hi, lo) returned by the function version
          ret_m,    \* (hi, lo) returned by the macro version
          cmax,     \* last value returned by lshift_count_max
          calls,    \* the calls made by the last step: [fn, x, n]; x is the
                    \* s64b value the call works on, n is 0 where the
                    \* function has no shift amount
          ops,      \* the lane shifts executed by the last step
          reports   \* lines printed to stdout by check_lshift/check_rshift

vars == <<pc, phase, i, x, n, ret, ret_m, cmax, calls, ops, reports>>

----------------------------------------------------------------------------
(* Bounds of the checked input family.                                     *)

\* width of the bit pattern placed into the input values
PatBits == 2
\* iterations of the loop of test() that are explored (the source runs 100000)
MaxIter == 2

----------------------------------------------------------------------------
(* Word arithmetic on sets of bit positions.                               *)

Bits32 == 0..31
Bits64 == 0..63

Max(S) == CHOOSE m \in S : \A k \in S : k <= m

\* x * 2^k as a mathematical number (no width)
Mul2(S, k) == {j + k : j \in S}
\* floor(x / 2^k) as a mathematical number
Div2(S, k) == {j - k : j \in {b \in S : b >= k}}

\* a <= b for non-negative numbers
LeqU(a, b) == \/ a = b
              \/ Max((a \ b) \cup (b \ a)) \in b

\* conversion to a w-bit type: modulo 2^w
Trunc(S, w) == {j \in S : j < w}

\* sign extension of a w-bit signed word to 64 bits
SExt64(S, w) == IF (w - 1) \in S THEN S \cup (w..63) ELSE S

----------------------------------------------------------------------------
(* The shift operators of C/C++ on 32-bit lanes (src/main.cpp:1-13 states  *)
(* the rules the program relies on).  A shift returns the SET of outcomes  *)
(* a build can produce: one outcome where the standard defines the result, *)
(* several where the behaviour is undefined.  An outcome is                *)
(* [v |-> word, trap |-> BOOLEAN]; trap means the run stops there (a build *)
(* with -fsanitize=undefined -fno-sanitize-recover).                       *)

Ok(v) == [v |-> v, trap |-> FALSE]
Trapped == [v |-> {}, trap |-> TRUE]

\* shift count not in 0..31: the hardware masks the count (x86 shifts by the
\* count modulo 32, w is the result of that shift), or the compiler folds the
\* shift to the word with everything shifted out (z: zero, or the sign fill
\* for a signed right shift), or the run traps
OverWide(w, z) == {Ok(w), Ok(z), Trapped}

\* the count the hardware uses: the low 5 bits
Masked(k) == k % 32

\* signed 32-bit  h << k : defined iff 0 <= k < 32, h >= 0 and h * 2^k fits
\* in int; on overflow or a negative h GCC-compatible builds wrap, or trap
ShlS32(h, k) ==
    IF k \notin 0..31 THEN OverWide(Trunc(Mul2(h, Masked(k)), 32), {})
    ELSE IF 31 \notin h /\ Mul2(h, k) \subseteq 0..30 THEN {Ok(Mul2(h, k))}
    ELSE {Ok(Trunc(Mul2(h, k), 32)), Trapped}

\* unsigned 32-bit  v << k : modulo 2^32
ShlU32(v, k) ==
    IF k \notin 0..31 THEN OverWide(Trunc(Mul2(v, Masked(k)), 32), {})
    ELSE {Ok(Trunc(Mul2(v, k), 32))}

\* unsigned 32-bit  v >> k : logical
ShrU32(v, k) ==
    IF k \notin 0..31 THEN OverWide(Div2(v, Masked(k)), {})
    ELSE {Ok(Div2(v, k))}

\* signed 32-bit  h >> k : the quotient for h >= 0; for h < 0 the result is
\* implementation-defined, GCC-compatible compilers (the program needs
\* __builtin_clzll) shift arithmetically; with everything shifted out a
\* negative h leaves -1
SarS32(h, k) ==
    LET sar(c) == Div2(h, c) \cup (IF 31 \in h THEN (32 - c)..31 ELSE {})
    IN  IF k \notin 0..31
        THEN OverWide(sar(Masked(k)), IF 31 \in h THEN 0..31 ELSE {})
        ELSE {Ok(sar(k))}

\* (u32b)e and (s32b)e keep the low 32 bits of the two's complement pattern
ToU32(S) == Trunc(S, 32)
ToS32(S) == Trunc(S, 32)

\* a lane shift as it is logged in ops
LaneOp(by, op, val, amt) == [by |-> by, op |-> op, val |-> val, amt |-> amt]

\* result of a two-lane shift routine
Res(hi, lo, o) == [hi |-> hi, lo |-> lo, trap |-> FALSE, ops |-> o]
TrapRes(o) == [hi |-> {}, lo |-> {}, trap |-> TRUE, ops |-> o]

----------------------------------------------------------------------------
(* The shift routines.  Each is two statements: the first ORs two lane      *)
(* shifts (A | B), the second is one lane shift (C).                        *)

\* the lane shifts executed when the first statement traps.  The order in
\* which the operands of | are evaluated is unspecified: the run stops at the
\* first operand that traps, the other operand was executed before it or not
\* at all
TrapLogs(opA, opB, a, b) ==
    (IF a.trap THEN {{opA}} ELSE IF b.trap THEN {{opA, opB}} ELSE {})
    \cup (IF b.trap THEN {{opB}} ELSE IF a.trap THEN {{opA, opB}} ELSE {})

\* the outcomes of the two statements, given the outcomes a, b, c of the
\* three lane shifts and the result r of a run without a trap
Stmts(opA, opB, opC, a, b, c, r) ==
    IF a.trap \/ b.trap THEN {TrapRes(l) : l \in TrapLogs(opA, opB, a, b)}
    ELSE IF c.trap THEN {TrapRes({opA, opB, opC})}
    ELSE {r}

\* s64b_LSHIFT_2 without its second statement  V2 <<= (N)
s64b_LSHIFT_2_NoLow(V1, V2, N) ==
    LET opA == LaneOp("s64b_LSHIFT_2", "shl_s32", V1, N)
        opB == LaneOp("s64b_LSHIFT_2", "shr_u32", V2, 32 - N)
    IN  UNION {IF a.trap \/ b.trap
               THEN {TrapRes(l) : l \in TrapLogs(opA, opB, a, b)}
               ELSE {Res(ToS32(ToU32(a.v) \cup b.v), V2, {opA, opB})} :
            a \in ShlS32(V1, N), b \in ShrU32(V2, 32 - N)}

\* main.cpp:48  {V1 = (V1<<(N)) | (V2>>(32-(N))); V2 <<= (N);}
\* V1 is s32b, V2 is u32b: V1<<N is a signed shift, the OR is unsigned
s64b_LSHIFT_2(V1, V2, N) ==
    LET opA == LaneOp("s64b_LSHIFT_2", "shl_s32", V1, N)
        opB == LaneOp("s64b_LSHIFT_2", "shr_u32", V2, 32 - N)
        opC == LaneOp("s64b_LSHIFT_2", "shl_u32", V2, N)
    IN  UNION {Stmts(opA, opB, opC, a, b, c,
                     Res(ToS32(ToU32(a.v) \cup b.v), c.v, {opA, opB, opC})) :
            a \in ShlS32(V1, N), b \in ShrU32(V2, 32 - N), c \in ShlU32(V2, N)}

\* the macro of Hengband v2.2.1 (main.cpp:43), V1 shifted left as s32b:
\* {V2 = (V1<<(32-(N))) | (V2>>(N)); V1 >>= (N);}
s64b_RSHIFT_1(V1, V2, N) ==
    LET opA == LaneOp("s64b_RSHIFT_2", "shl_s32", V1, 32 - N)
        opB == LaneOp("s64b_RSHIFT_2", "shr_u32", V2, N)
        opC == LaneOp("s64b_RSHIFT_2", "sar_s32", V1, N)
    IN  UNION {Stmts(opA, opB, opC, a, b, c,
                     Res(c.v, ToU32(a.v) \cup b.v, {opA, opB, opC})) :
            a \in ShlS32(V1, 32 - N), b \in ShrU32(V2, N),
            c \in SarS32(V1, N)}

\* main.cpp:49  {V2 = ((u32b)V1<<(32-(N))) | (V2>>(N)); V1 >>= (N);}
s64b_RSHIFT_2(V1, V2, N) ==
    LET opA == LaneOp("s64b_RSHIFT_2", "shl_u32", ToU32(V1), 32 - N)
        opB == LaneOp("s64b_RSHIFT_2", "shr_u32", V2, N)
        opC == LaneOp("s64b_RSHIFT_2", "sar_s32", V1, N)
    IN  UNION {Stmts(opA, opB, opC, a, b, c,
                     Res(c.v, a.v \cup b.v, {opA, opB, opC})) :
            a \in ShlU32(ToU32(V1), 32 - N), b \in ShrU32(V2, N),
            c \in SarS32(V1, N)}

\* s64b_lshift that forgets the bits carried from the low lane
s64b_lshift_NoCarry(hi, lo, k) ==
    IF k = 0 THEN {Res(hi, lo, {})}
    ELSE
    LET opA == LaneOp("s64b_lshift", "shl_s32", hi, k)
        opC == LaneOp("s64b_lshift", "shl_u32", lo, k)
    IN  {IF a.trap THEN TrapRes({opA})
         ELSE IF c.trap THEN TrapRes({opA, opC})
         ELSE Res(ToS32(ToU32(a.v)), c.v, {opA, opC}) :
            a \in ShlS32(hi, k), c \in ShlU32(lo, k)}

\* s64b_lshift without the early return for n == 0
s64b_lshift_NoGuard(hi, lo, k) ==
    LET opA == LaneOp("s64b_lshift", "shl_s32", hi, k)
        opB == LaneOp("s64b_lshift", "shr_u32", lo, 32 - k)
        opC == LaneOp("s64b_lshift", "shl_u32", lo, k)
    IN  UNION {Stmts(opA, opB, opC, a, b, c,
                     Res(ToS32(ToU32(a.v) \cup b.v), c.v, {opA, opB, opC})) :
            a \in ShlS32(hi, k), b \in ShrU32(lo, 32 - k), c \in ShlU32(lo, k)}

\* main.cpp:61-66: the shift  *hi << n  is done on the s32b lane and its
\* result is then converted to u32b
s64b_lshift(hi, lo, k) ==
    IF k = 0 THEN {Res(hi, lo, {})}
    ELSE
    LET opA == LaneOp("s64b_lshift", "shl_s32", hi, k)
        opB == LaneOp("s64b_lshift", "shr_u32", lo, 32 - k)
        opC == LaneOp("s64b_lshift", "shl_u32", lo, k)
    IN  UNION {Stmts(opA, opB, opC, a, b, c,
                     Res(ToS32(ToU32(a.v) \cup b.v), c.v, {opA, opB, opC})) :
            a \in ShlS32(hi, k), b \in ShrU32(lo, 32 - k), c \in ShlU32(lo, k)}

\* s64b_rshift without its second statement  *hi >>= n
s64b_rshift_KeepHi(hi, lo, k) ==
    IF k = 0 THEN {Res(hi, lo, {})}
    ELSE
    LET opA == LaneOp("s64b_rshift", "shl_u32", ToU32(hi), 32 - k)
        opB == LaneOp("s64b_rshift", "shr_u32", lo, k)
    IN  UNION {IF a.trap \/ b.trap
               THEN {TrapRes(l) : l \in TrapLogs(opA, opB, a, b)}
               ELSE {Res(hi, a.v \cup b.v, {opA, opB})} :
            a \in ShlU32(ToU32(hi), 32 - k), b \in ShrU32(lo, k)}

\* main.cpp:69-74
s64b_rshift(hi, lo, k) ==
    IF k = 0 THEN {Res(hi, lo, {})}
    ELSE
    LET opA == LaneOp("s64b_rshift", "shl_u32", ToU32(hi), 32 - k)
        opB == LaneOp("s64b_rshift", "shr_u32", lo, k)
        opC == LaneOp("s64b_rshift", "sar_s32", hi, k)
    IN  UNION {Stmts(opA, opB, opC, a, b, c,
                     Res(c.v, a.v \cup b.v, {opA, opB, opC})) :
            a \in ShlU32(ToU32(hi), 32 - k), b \in ShrU32(lo, k),
            c \in SarS32(hi, k)}

\* unpack_s64b with the mask one bit short: x & ((INT64_C(1) << 31) - 1)
unpack_s64b_Mask31(v) ==
    [hi |-> ToS32(Div2(v, 32) \cup (IF 63 \in v THEN 32..63 ELSE {})),
     lo |-> ToU32(v \cap (0..30))]

\* unpack_s64b with | for & : x | ((INT64_C(1) << 32) - 1)
unpack_s64b_OrMask(v) ==
    [hi |-> ToS32(Div2(v, 32) \cup (IF 63 \in v THEN 32..63 ELSE {})),
     lo |-> ToU32(v \cup (0..31))]

\* unpack_s64b with the high lane taken one bit too low: x >> 31
unpack_s64b_Shift31(v) ==
    [hi |-> ToS32(Div2(v, 31) \cup (IF 63 \in v THEN 33..63 ELSE {})),
     lo |-> ToU32(v \cap (0..31))]

\* main.cpp:76-80: hi = (s32b)(x >> 32), lo = (u32b)(x & 0xFFFFFFFF)
unpack_s64b(v) ==
    [hi |-> ToS32(Div2(v, 32) \cup (IF 63 \in v THEN 32..63 ELSE {})),
     lo |-> ToU32(v \cap (0..31))]

\* main.cpp:82-86
f_lshift_macro(v, k) ==
    LET p == unpack_s64b(v) IN s64b_LSHIFT_2(p.hi, p.lo, k)

\* main.cpp:88-92
f_rshift_macro(v, k) ==
    LET p == unpack_s64b(v) IN s64b_RSHIFT_2(p.hi, p.lo, k)

\* main.cpp:94-98
f_lshift(v, k) ==
    LET p == unpack_s64b(v) IN s64b_lshift(p.hi, p.lo, k)

\* main.cpp:100-104
f_rshift(v, k) ==
    LET p == unpack_s64b(v) IN s64b_rshift(p.hi, p.lo, k)

\* __builtin_clzll on a non-zero u64b: the number of leading 0 bits
clzll(v) == 63 - Max(v)

Min(a, b) == IF a <= b THEN a ELSE b

\* lshift_count_max without the - 1 that keeps the sign bit clear
lshift_count_max_NoMinus1(v) ==
    IF v = {} THEN 31 ELSE Min(31, clzll(v))

\* lshift_count_max without the cap at 31
lshift_count_max_NoCap(v) ==
    IF v = {} THEN 31 ELSE clzll(v) - 1

\* main.cpp:121-124
lshift_count_max(v) ==
    IF v = {} THEN 31 ELSE Min(31, clzll(v) - 1)

\* the (hi, lo) pair a routine returned
Pair(r) == [hi |-> r.hi, lo |-> r.lo]

\* a call as it is logged in calls
Call(fn, v, k) == [fn |-> fn, x |-> v, n |-> k]

\* the calls a run of f_lshift / f_rshift / f_lshift_macro / f_rshift_macro
\* makes (itself included): each unpacks x, the function versions then call
\* s64b_lshift / s64b_rshift, the macro versions expand the macro in place
CallsOf(fn, v, k) ==
    {Call(fn, v, k), Call("unpack_s64b", v, 0)}
    \cup (IF fn = "f_lshift" THEN {Call("s64b_lshift", v, k)}
          ELSE IF fn = "f_rshift" THEN {Call("s64b_rshift", v, k)}
          ELSE {})

\* the line printed on a mismatch (main.cpp:110, 117)
Report(dir, v, k, a, b) ==
    [dir |-> dir, x |-> v, n |-> k,
     hi |-> a.hi, lo |-> a.lo, hi_m |-> b.hi, lo_m |-> b.lo]

\* outcome of check_lshift / check_rshift: both results, the lane shifts
\* executed, the calls made and the lines printed; when the function version
\* traps the macro version is not called any more
CheckRes(dir, v, k, a, b) ==
    LET fcalls == IF dir = "lshift"
                  THEN {Call("check_lshift", v, k)} \cup CallsOf("f_lshift", v, k)
                  ELSE {Call("check_rshift", v, k)} \cup CallsOf("f_rshift", v, k)
        mcalls == IF dir = "lshift" THEN CallsOf("f_lshift_macro", v, k)
                                    ELSE CallsOf("f_rshift_macro", v, k)
    IN
    IF a.trap THEN
        [ret |-> a, ret_m |-> TrapRes({}), trap |-> TRUE, ops |-> a.ops,
         calls |-> fcalls, out |-> <<>>]
    ELSE IF b.trap THEN
        [ret |-> a, ret_m |-> b, trap |-> TRUE, ops |-> a.ops \cup b.ops,
         calls |-> fcalls \cup mcalls, out |-> <<>>]
    ELSE
        [ret |-> a, ret_m |-> b, trap |-> FALSE, ops |-> a.ops \cup b.ops,
         calls |-> fcalls \cup mcalls,
         out |-> IF Pair(a) # Pair(b)
                 THEN <<Report(dir, v, k, a, b)>> ELSE <<>>]

\* main.cpp:106-111
check_lshift(v, k) ==
    {CheckRes("lshift", v, k, a, b) :
        a \in f_lshift(v, k), b \in f_lshift_macro(v, k)}

\* main.cpp:113-118
check_rshift(v, k) ==
    {CheckRes("rshift", v, k, a, b) :
        a \in f_rshift(v, k), b \in f_rshift_macro(v, k)}

----------------------------------------------------------------------------
(* Input values.  A value of the family is a pattern of PatBits bits       *)
(* placed at any offset of bits 0..62, on a background of 0 bits or of 1   *)
(* bits, with either sign bit: it contains 0, 1, -1, INT64_MAX, INT64_MIN, *)
(* every power of two and every 2^k - 1.                                   *)

Pattern(P, s, fill) == {j \in 0..62 : (j - s \in P) # fill}

InputsS64 ==
    {Pattern(P, s, f) \cup sg :
        P \in SUBSET (0..(PatBits - 1)), s \in 0..62, f \in BOOLEAN,
        sg \in {{}, {63}}}

\* upper end of the distribution passed to test(): main.cpp:156, 157
DistMax(ph) == IF ph = 1 THEN 0..62 ELSE {16}

\* values dist_x(rng) can return: uniform_int_distribution<s64b>(0, max)
dist_x(ph) == {v \in InputsS64 : 63 \notin v /\ LeqU(v, DistMax(ph))}

NoPair == [hi |-> {}, lo |-> {}, trap |-> FALSE, ops |-> {}]

----------------------------------------------------------------------------
(* The driver: main() and test().                                          *)

Init ==
    /\ pc = "main_150"
    /\ phase = 0
    /\ i = 0
    /\ x = {}
    /\ n = 0
    /\ ret = NoPair
    /\ ret_m = NoPair
    /\ cmax = 0
    /\ calls = {}
    /\ ops = {}
    /\ reports = <<>>

\* one call of check_lshift / check_rshift made at position at, then go to
\* nxt; before are the calls the step makes before the check
DoCheck(at, dir, v, k, nxt, before) ==
    /\ pc = at
    /\ \E r \in (IF dir = "lshift" THEN check_lshift(v, k)
                                   ELSE check_rshift(v, k)) :
        /\ ret' = r.ret
        /\ ret_m' = r.ret_m
        /\ ops' = r.ops
        /\ reports' = reports \o r.out
        /\ calls' = before \cup r.calls
        /\ pc' = IF r.trap THEN "abort" ELSE nxt

\* main.cpp:150  check_lshift(0, 1)
main_150 ==
    /\ DoCheck("main_150", "lshift", {}, 1, "main_151", {})
    /\ UNCHANGED <<phase, i, x, n, cmax>>

\* main.cpp:151  check_lshift(0, 31)
main_151 ==
    /\ DoCheck("main_151", "lshift", {}, 31, "main_152", {})
    /\ UNCHANGED <<phase, i, x, n, cmax>>

\* main.cpp:152  check_rshift(0, 1)
main_152 ==
    /\ DoCheck("main_152", "rshift", {}, 1, "main_153", {})
    /\ UNCHANGED <<phase, i, x, n, cmax>>

\* main.cpp:153  check_rshift(0, 31)
main_153 ==
    /\ DoCheck("main_153", "rshift", {}, 31, "main_156", {})
    /\ UNCHANGED <<phase, i, x, n, cmax>>

\* main.cpp:156, 157: the two calls of test(); the loop starts with i = 0
main_test ==
    /\ pc \in {"main_156", "main_157"}
    /\ phase' = IF pc = "main_156" THEN 1 ELSE 2
    /\ i' = 0
    /\ pc' = "test_130"
    /\ calls' = {}
    /\ ops' = {}
    /\ UNCHANGED <<x, n, ret, ret_m, cmax, reports>>

\* main.cpp:130-135: draw x and run the two assertions with shift amount 0;
\* a failed first assertion aborts before f_rshift is called
test_draw ==
    /\ pc = "test_130"
    /\ i < MaxIter
    /\ \E v \in dist_x(phase) :
        \E a \in f_lshift(v, 0), b \in f_rshift(v, 0) :
            LET ok1 == ~a.trap /\ Pair(a) = unpack_s64b(v)
                ok2 == ~b.trap /\ Pair(b) = unpack_s64b(v)
            IN  /\ x' = v
                /\ ret' = a
                /\ ret_m' = NoPair
                /\ ops' = a.ops \cup (IF ok1 THEN b.ops ELSE {})
                /\ calls' = CallsOf("f_lshift", v, 0)
                             \cup (IF ok1 THEN CallsOf("f_rshift", v, 0)
                                   ELSE {})
                /\ pc' = IF ok1 /\ ok2 THEN "test_138" ELSE "abort"
    /\ n' = 1
    /\ UNCHANGED <<phase, i, cmax, reports>>

\* main.cpp:138-139: one round of the left shift loop
test_lshift ==
    /\ pc = "test_138"
    /\ n <= lshift_count_max(x)
    /\ DoCheck("test_138", "lshift", x, n, "test_138",
               {Call("lshift_count_max", x, 0)})
    /\ n' = n + 1
    /\ cmax' = lshift_count_max(x)
    /\ UNCHANGED <<phase, i, x>>

\* main.cpp:138: the left shift loop ends, the right shift loop starts
test_lshift_end ==
    /\ pc = "test_138"
    /\ ~(n <= lshift_count_max(x))
    /\ pc' = "test_142"
    /\ n' = 1
    /\ cmax' = lshift_count_max(x)
    /\ calls' = {Call("lshift_count_max", x, 0)}
    /\ ops' = {}
    /\ UNCHANGED <<phase, i, x, ret, ret_m, reports>>

\* main.cpp:142-143: one round of the right shift loop
test_rshift ==
    /\ pc = "test_142"
    /\ n <= 31
    /\ DoCheck("test_142", "rshift", x, n, "test_142", {})
    /\ n' = n + 1
    /\ UNCHANGED <<phase, i, x, cmax>>

\* main.cpp:142, 130: the right shift loop ends, next round of the outer loop
test_rshift_end ==
    /\ pc = "test_142"
    /\ ~(n <= 31)
    /\ i' = i + 1
    /\ pc' = "test_130"
    /\ calls' = {}
    /\ ops' = {}
    /\ UNCHANGED <<phase, x, n, ret, ret_m, cmax, reports>>

\* main.cpp:130, 145: the outer loop ends and test() returns to main
test_return ==
    /\ pc = "test_130"
    /\ ~(i < MaxIter)
    /\ pc' = IF phase = 1 THEN "main_157" ELSE "done"
    /\ calls' = {}
    /\ ops' = {}
    /\ UNCHANGED <<phase, i, x, n, ret, ret_m, cmax, reports>>

Next ==
    \/ main_150 \/ main_151 \/ main_152 \/ main_153
    \/ main_test
    \/ test_draw \/ test_lshift \/ test_lshift_end
    \/ test_rshift \/ test_rshift_end \/ test_return

Spec == Init /\ [][Next]_vars

----------------------------------------------------------------------------
(* The routines called on their own: any s64b value of the family and any  *)
(* shift amount 0..31, one call per behaviour.                             *)

InitFn ==
    /\ pc = "fn"
    /\ phase = 0
    /\ i = 0
    /\ x \in InputsS64
    /\ n \in 0..31
    /\ ret = NoPair
    /\ ret_m = NoPair
    /\ cmax = 0
    /\ calls = {}
    /\ ops = {}
    /\ reports = <<>>

\* a call of one two-lane shift routine, its result stored in ret (function
\* version) or ret_m (macro version)
FnShift(fn, outcomes, macro) ==
    /\ pc = "fn"
    /\ \E r \in outcomes :
        /\ ret' = IF macro THEN ret ELSE r
        /\ ret_m' = IF macro THEN r ELSE ret_m
        /\ ops' = r.ops
    /\ calls' = CallsOf(fn, x, n)
    /\ UNCHANGED <<pc, phase, i, x, n, cmax, reports>>

fn_unpack_s64b ==
    /\ pc = "fn"
    /\ calls = {}
    /\ ret' = [NoPair EXCEPT !.hi = unpack_s64b(x).hi,
                             !.lo = unpack_s64b(x).lo]
    /\ calls' = {Call("unpack_s64b", x, 0)}
    /\ UNCHANGED <<pc, phase, i, x, n, ret_m, cmax, ops, reports>>

fn_f_lshift ==
    /\ calls = {}
    /\ FnShift("f_lshift", f_lshift(x, n), FALSE)

fn_f_rshift ==
    /\ calls = {}
    /\ FnShift("f_rshift", f_rshift(x, n), FALSE)

fn_f_lshift_macro ==
    /\ calls = {}
    /\ FnShift("f_lshift_macro", f_lshift_macro(x, n), TRUE)

fn_f_rshift_macro ==
    /\ calls = {}
    /\ FnShift("f_rshift_macro", f_rshift_macro(x, n), TRUE)

fn_check_lshift ==
    /\ calls = {}
    /\ DoCheck("fn", "lshift", x, n, "fn", {})
    /\ UNCHANGED <<phase, i, x, n, cmax>>

fn_check_rshift ==
    /\ calls = {}
    /\ DoCheck("fn", "rshift", x, n, "fn", {})
    /\ UNCHANGED <<phase, i, x, n, cmax>>

fn_lshift_count_max ==
    /\ pc = "fn"
    /\ calls = {}
    /\ cmax' = lshift_count_max(x)
    /\ calls' = {Call("lshift_count_max", x, 0)}
    /\ UNCHANGED <<pc, phase, i, x, n, ret, ret_m, ops, reports>>

NextFn ==
    \/ fn_unpack_s64b
    \/ fn_f_lshift \/ fn_f_rshift
    \/ fn_f_lshift_macro \/ fn_f_rshift_macro
    \/ fn_check_lshift \/ fn_check_rshift
    \/ fn_lshift_count_max

SpecFn == InitFn /\ [][NextFn]_vars

----------------------------------------------------------------------------
(* Notions the properties are stated with.                                 *)

\* the value is a non-negative s64b
NonNeg(v) == 63 \notin v

\* the mathematical product h * 2^k of a signed 32-bit h fits in s32b
MulFitsS32(h, k) ==
    IF 31 \in h THEN ((31 - k)..31) \subseteq h ELSE Mul2(h, k) \subseteq 0..30

\* the mathematical product v * 2^k of a non-negative v fits in s64b
MulFitsS64(v, k) == Mul2(v, k) \subseteq 0..62

\* join of the specification (4.1): (high widened to 64 bits) << 32 | low
\* zero-extended, as a 64-bit pattern
Join(hi, lo) == Trunc(Mul2(SExt64(hi, 32), 32), 64) \cup lo

\* the pair (hi, lo) holds bits 32.. and bits 0..31 of the number m
PairOf(m) == [hi |-> Div2(m, 32), lo |-> m \cap (0..31)]

InContractL(c) == NonNeg(c.x) /\ 1 <= c.n /\ c.n <= lshift_count_max(c.x)
InContractR(c) == NonNeg(c.x) /\ 1 <= c.n /\ c.n <= 31

----------------------------------------------------------------------------
(* C1: for every non-negative x and every n in 1..lshift_count_max(x) the  *)
(* function version and the macro version of the left shift return the     *)
(* same (hi, lo) pair, and check_lshift prints nothing.                    *)
C1_LshiftVariantsAgree ==
    \A c \in calls :
        (c.fn = "check_lshift" /\ InContractL(c)) =>
            /\ ~ret.trap /\ ~ret_m.trap
            /\ Pair(ret) = Pair(ret_m)
            /\ reports = <<>>

\* a checked left shift that carries bits of the low lane into the high lane
C1_Witness ==
    \E c \in calls :
        /\ c.fn = "check_lshift" /\ InContractL(c)
        /\ \E j \in c.x : j < 32 /\ j + c.n >= 32
        /\ \E j \in c.x : j >= 32
        /\ ret.lo # {} /\ ret.hi # {}
        /\ Pair(ret) = Pair(ret_m)

(* C2: for every non-negative x and every n in 1..31 the function version  *)
(* and the macro version of the right shift return the same (hi, lo) pair, *)
(* and check_rshift prints nothing.                                        *)
C2_RshiftVariantsAgree ==
    \A c \in calls :
        (c.fn = "check_rshift" /\ InContractR(c)) =>
            /\ ~ret.trap /\ ~ret_m.trap
            /\ Pair(ret) = Pair(ret_m)
            /\ reports = <<>>

\* a checked right shift that carries bits of the high lane into the low lane
C2_Witness ==
    \E c \in calls :
        /\ c.fn = "check_rshift" /\ InContractR(c)
        /\ \E j \in c.x : j >= 32 /\ j - c.n < 32
        /\ ret.lo # {} /\ ret.hi # {}
        /\ Pair(ret) = Pair(ret_m)

(* C3: for every non-negative x the function versions called with shift    *)
(* amount 0 return unpack_s64b(x) unchanged and execute no lane shift by   *)
(* 32 (they execute no lane shift at all).                                 *)
C3_ZeroAmountIdentity ==
    \A c \in calls :
        (c.fn \in {"f_lshift", "f_rshift"} /\ NonNeg(c.x) /\ c.n = 0) =>
            /\ ~ret.trap
            /\ Pair(ret) = unpack_s64b(c.x)
            /\ \A o \in ret.ops : o.amt # 32
            /\ \A o \in ops :
                  o.by \in {"s64b_lshift", "s64b_rshift"} => o.amt # 32

\* a function version was called with amount 0 on a value with both lanes set
C3_Witness ==
    \E c \in calls :
        /\ c.fn \in {"f_lshift", "f_rshift"} /\ NonNeg(c.x) /\ c.n = 0
        /\ ret.hi # {} /\ ret.lo # {}
        /\ Pair(ret) = unpack_s64b(c.x)

(* C4: for every s64b x, negative ones included, the pair unpack_s64b(x)   *)
(* joined as (hi widened to 64 bits) << 32 | lo gives x again.             *)
C4_RoundTrip ==
    \A c \in calls :
        (c.fn = "unpack_s64b" /\ calls = {c}) => Join(ret.hi, ret.lo) = c.x

\* a negative value with 0 bits in both lanes was split
C4_Witness ==
    \E c \in calls :
        /\ c.fn = "unpack_s64b" /\ calls = {c} /\ 63 \in c.x
        /\ ret.hi # 0..31 /\ ret.lo # 0..31 /\ ret.lo # {}
        /\ 31 \in ret.hi

(* C5: lshift_count_max(0) is 31; for x > 0 the result n is in 0..31,      *)
(* x * 2^n fits in the non-negative s64b range, and if n + 1 <= 31 then    *)
(* x * 2^(n+1) does not fit.                                               *)
C5_LshiftCountMax ==
    \A c \in calls :
        (c.fn = "lshift_count_max" /\ NonNeg(c.x)) =>
            IF c.x = {} THEN cmax = 31
            ELSE /\ cmax \in 0..31
                 /\ MulFitsS64(c.x, cmax)
                 /\ (cmax + 1 <= 31) => ~MulFitsS64(c.x, cmax + 1)

\* the result is below the cap for a value with more than one bit set
C5_Witness ==
    \E c \in calls :
        /\ c.fn = "lshift_count_max" /\ NonNeg(c.x)
        /\ Cardinality(c.x) > 1
        /\ cmax \in 1..30

(* C6: for every non-negative x and every n in 1..lshift_count_max(x) the  *)
(* pair returned by the left shift, function version and macro version,    *)
(* holds x * 2^n; x = 1, n = 31 gives hi = 0, lo = 0x80000000.             *)
C6_LshiftIsMul ==
    \A c \in calls :
        /\ (c.fn \in {"f_lshift", "check_lshift"} /\ InContractL(c)) =>
              (~ret.trap /\ Pair(ret) = PairOf(Mul2(c.x, c.n)))
        /\ (c.fn \in {"f_lshift_macro", "check_lshift"} /\ InContractL(c)) =>
              (~ret_m.trap /\ Pair(ret_m) = PairOf(Mul2(c.x, c.n)))
        /\ (c.fn \in {"f_lshift", "check_lshift"} /\ c.x = {0} /\ c.n = 31) =>
              (ret.hi = {} /\ ret.lo = {31})
        /\ (c.fn \in {"f_lshift_macro", "check_lshift"} /\ c.x = {0}
                /\ c.n = 31) =>
              (ret_m.hi = {} /\ ret_m.lo = {31})

\* x = 1 was shifted left by 31 by both versions
C6_Witness ==
    \E c \in calls :
        /\ c.fn = "check_lshift" /\ c.x = {0} /\ c.n = 31
        /\ ret.lo = {31} /\ ret_m.lo = {31}

(* C7: for every non-negative x and every n in 1..31 the pair returned by  *)
(* the right shift, function version and macro version, holds              *)
(* floor(x / 2^n); x = 2^40, n = 1 gives 2^39.                             *)
C7_RshiftIsDiv ==
    \A c \in calls :
        /\ (c.fn \in {"f_rshift", "check_rshift"} /\ InContractR(c)) =>
              (~ret.trap /\ Pair(ret) = PairOf(Div2(c.x, c.n)))
        /\ (c.fn \in {"f_rshift_macro", "check_rshift"} /\ InContractR(c)) =>
              (~ret_m.trap /\ Pair(ret_m) = PairOf(Div2(c.x, c.n)))
        /\ (c.fn \in {"f_rshift", "check_rshift"} /\ c.x = {40} /\ c.n = 1) =>
              Join(ret.hi, ret.lo) = {39}
        /\ (c.fn \in {"f_rshift_macro", "check_rshift"} /\ c.x = {40}
                /\ c.n = 1) =>
              Join(ret_m.hi, ret_m.lo) = {39}

\* x = 2^40 was shifted right by 1 by both versions
C7_Witness ==
    \E c \in calls :
        /\ c.fn = "check_rshift" /\ c.x = {40} /\ c.n = 1
        /\ ret.hi = {7} /\ ret_m.hi = {7}

(* C8: 0 is a fixed point: for every n in 1..31 the left shift and the     *)
(* right shift, function version and macro version, of x = 0 return        *)
(* (hi, lo) = (0, 0).                                                      *)
C8_ZeroFixedPoint ==
    \A c \in calls :
        /\ (c.fn \in {"f_lshift", "f_rshift", "check_lshift", "check_rshift"}
                /\ c.x = {} /\ c.n \in 1..31) =>
              (~ret.trap /\ ret.hi = {} /\ ret.lo = {})
        /\ (c.fn \in {"f_lshift_macro", "f_rshift_macro", "check_lshift",
                      "check_rshift"}
                /\ c.x = {} /\ c.n \in 1..31) =>
              (~ret_m.trap /\ ret_m.hi = {} /\ ret_m.lo = {})

\* 0 was shifted right by 31 by both versions, all three lane shifts executed
C8_Witness ==
    \E c \in calls :
        /\ c.fn = "check_rshift" /\ c.x = {} /\ c.n = 31
        /\ Cardinality(ops) = 6
        /\ ret.hi = {} /\ ret_m.lo = {}

(* C9 as claimed: for every s32b high lane and every n in 1..31 the        *)
(* function version s64b_lshift shifts the high lane as an unsigned word,  *)
(* so it never executes a signed 32-bit shift hi << n whose mathematical   *)
(* result hi * 2^n is outside the s32b range.                              *)
C9_GuardedShiftUnsigned ==
    \A o \in ops :
        (o.by = "s64b_lshift" /\ o.op = "shl_s32") => MulFitsS32(o.val, o.amt)

(* C9 amended: s64b_lshift shifts the high lane as a signed s32b word and  *)
(* converts the result to u32b afterwards; for every non-negative x and    *)
(* every n in 1..lshift_count_max(x) the result hi * 2^n of that signed    *)
(* shift is within 0..INT32_MAX.                                           *)
C9_GuardedShiftSignedInContract ==
    \A c \in calls :
        (c.fn = "f_lshift" /\ InContractL(c)) =>
            /\ ~ret.trap
            /\ LaneOp("s64b_lshift", "shl_s32", unpack_s64b(c.x).hi, c.n)
                   \in ret.ops
            /\ \A o \in ret.ops :
                  o.op = "shl_s32" =>
                      (31 \notin o.val /\ Mul2(o.val, o.amt) \subseteq 0..30)

\* the function version shifted a high lane up to bit 30, the last bit that
\* a signed shift may reach
C9_Witness ==
    \E c \in calls :
        /\ c.fn = "f_lshift" /\ InContractL(c)
        /\ \E o \in ret.ops :
              /\ o.op = "shl_s32" /\ o.val # {}
              /\ Max(o.val) + o.amt = 30

(* C10: in every step of a run of main no out-of-contract shift is         *)
(* executed: every x is non-negative; amount 0 goes to the function        *)
(* versions only; every macro call and every check_lshift / check_rshift   *)
(* call has n in 1..31, so every lane shift amount is in 1..31; every      *)
(* check_lshift(x, n) has x * 2^n <= INT64_MAX; every signed high-lane     *)
(* left shift hi << n has hi * 2^n <= INT32_MAX.                           *)
C10_DriverInContract ==
    /\ NonNeg(x)
    /\ \A c \in calls :
        /\ NonNeg(c.x)
        /\ (c.fn \in {"f_lshift_macro", "f_rshift_macro", "check_lshift",
                      "check_rshift"}) => c.n \in 1..31
        /\ (c.fn \in {"f_lshift", "f_rshift", "s64b_lshift", "s64b_rshift"})
              => c.n \in 0..31
        /\ c.fn = "check_lshift" => MulFitsS64(c.x, c.n)
    /\ \A o \in ops :
        /\ o.amt \in 1..31
        /\ o.op = "shl_s32" =>
              (31 \notin o.val /\ Mul2(o.val, o.amt) \subseteq 0..30)

\* the first call of test() checked a left shift that moved the high lane
\* up to bit 30 in both versions, after the assertions with amount 0 passed
C10_Witness ==
    /\ pc = "test_138"
    /\ phase = 1
    /\ i = MaxIter - 1
    /\ \E c \in calls : c.fn = "check_lshift" /\ c.n = cmax
    /\ \E o \in ops :
          /\ o.by = "s64b_lshift" /\ o.op = "shl_s32"
          /\ o.val # {} /\ Max(o.val) + o.amt = 30
    /\ \E o \in ops :
          /\ o.by = "s64b_LSHIFT_2" /\ o.op = "shl_s32"
          /\ o.val # {} /\ Max(o.val) + o.amt = 30

====
